---------------------------- MODULE Spec2Model ----------------------------
(***************************************************************************)
(* The session processors of the meta service                              *)
(* (src/meta/processors/session/SessionManagerProcessor.cpp): the session  *)
(* table kept in the key-value store and the six request handlers          *)
(* CreateSession, UpdateSessions, ListSessions, GetSession, RemoveSession  *)
(* and KillQuery.  Every handler holds LockUtils::sessionLock() from its   *)
(* first to its last statement, so a handler is one atomic action here.    *)
(* The inputs of a handler are its request and the outcome of each store   *)
(* call it makes (answered, or failed with a store error).                 *)
(***************************************************************************)
EXTENDS Integers, Sequences, FiniteSets, TLC

VARIABLES store,    \* the session keyspace of the kv store: key -> value
          clock,    \* the last reading of the wall clock
          req,      \* the request of the last handler that ran
          io,       \* the store calls of that handler that failed
          resp,     \* resp_ of that handler, as handed to onFinished()
          created,  \* history: ids a successful CreateSession returned, not removed since
          killed,   \* history: <<session, plan>> marked by a successful KillQuery and
                    \* persisted as KILLING ever since
          threads,  \* per request thread: the handler it runs and how far it is
          sessionLock  \* LockUtils::sessionLock(): the threads that hold it

vars == <<store, clock, req, io, resp, created, killed, threads, sessionLock>>

---------------------------------------------------------------------------
(* Bounds of the model *)

MaxTime == 2        \* wall clock readings, hence session ids, are 1..MaxTime
MaxBatch == 2       \* sessions in one UpdateSessions / RemoveSession request
MaxFaults == 1      \* store calls that fail within one handler
MaxThreads == 3     \* request threads that run handlers at the same time

SessionIds == 1..MaxTime
Stamps == 1..MaxTime               \* update_time values a front-end submits
Plans == {"p1", "p2"}              \* execution plan ids
Registered == {"root"}             \* users the directory knows
\* <<user, graph_addr, client_ip>> of a CreateSession request or of a snapshot
Identities == {<<"root", "graphd1", "ip1">>, <<"nobody", "graphd2", "ip2">>}

---------------------------------------------------------------------------
(* Error codes *)

SUCCEEDED == "SUCCEEDED"
E_KEY_NOT_FOUND == "E_KEY_NOT_FOUND"
E_SESSION_NOT_FOUND == "E_SESSION_NOT_FOUND"
E_QUERY_NOT_FOUND == "E_QUERY_NOT_FOUND"
E_USER_NOT_FOUND == "E_USER_NOT_FOUND"
\* any failure of the store other than key-not-found
E_STORE_FAILURE == "E_STORE_FAILURE"

---------------------------------------------------------------------------
(* cpp2::Session, cpp2::QueryDesc and their encoding in the store *)

RUNNING == "RUNNING"
KILLING == "KILLING"

QueryDesc(st) == [status |-> st]

\* std::unordered_map<ExecutionPlanID, QueryDesc> is a function on the plans present
NoQueries == [ep \in {} |-> QueryDesc(RUNNING)]

Session(id, ct, ut, user, addr, ip, qs) ==
    [session_id |-> id, create_time |-> ct, update_time |-> ut,
     user_name |-> user, graph_addr |-> addr, client_ip |-> ip, queries |-> qs]

sessionPrefix == "__sessions__"

sessionKey(sessionId) == <<sessionPrefix, sessionId>>

sessionVal(session) ==
    <<session.session_id, session.create_time, session.update_time,
      session.user_name, session.graph_addr, session.client_ip, session.queries>>

parseSessionVal(val) ==
    Session(val[1], val[2], val[3], val[4], val[5], val[6], val[7])


---------------------------------------------------------------------------
(* The store, as the handlers use it.  A store call is answered, or fails   *)
(* with E_STORE_FAILURE; which one is an input of the handler.              *)

\* BaseProcessor::doGet: the value, E_KEY_NOT_FOUND, or the store's failure
doGet(kv, key, fails) ==
    IF fails THEN [ok |-> FALSE, code |-> E_STORE_FAILURE]
    ELSE IF key \in DOMAIN kv THEN [ok |-> TRUE, val |-> kv[key]]
    ELSE [ok |-> FALSE, code |-> E_KEY_NOT_FOUND]

\* the effect of one batched put: the pairs are applied in order
RECURSIVE PutAll(_, _)
PutAll(kv, data) ==
    IF data = <<>> THEN kv
    ELSE PutAll([k \in DOMAIN kv \cup {data[1][1]} |->
                    IF k = data[1][1] THEN data[1][2] ELSE kv[k]], Tail(data))

\* BaseProcessor::doSyncPut: all of data is written, or nothing is
doSyncPut(kv, data, fails) ==
    IF fails THEN [code |-> E_STORE_FAILURE, kv |-> kv]
    ELSE [code |-> SUCCEEDED, kv |-> PutAll(kv, data)]

\* kvstore_->asyncRemove of one key, waited for
doRemove(kv, key, fails) ==
    IF fails THEN [code |-> E_STORE_FAILURE, kv |-> kv]
    ELSE [code |-> SUCCEEDED, kv |-> [k \in DOMAIN kv \ {key} |-> kv[k]]]

\* BaseProcessor::doPrefix over sessionPrefix: the values under the prefix, in key order
RECURSIVE ScanFrom(_, _)
ScanFrom(kv, id) ==
    IF id > MaxTime THEN <<>>
    ELSE IF sessionKey(id) \in DOMAIN kv
         THEN <<kv[sessionKey(id)]>> \o ScanFrom(kv, id + 1)
         ELSE ScanFrom(kv, id + 1)

doPrefix(kv, fails) ==
    IF fails THEN [ok |-> FALSE, code |-> E_STORE_FAILURE]
    ELSE [ok |-> TRUE, vals |-> ScanFrom(kv, 1)]

\* BaseProcessor::userExist
userExist(user) == IF user \in Registered THEN SUCCEEDED ELSE E_USER_NOT_FOUND

\* the persisted record of a session id that is in the table
Persisted(kv, id) == parseSessionVal(kv[sessionKey(id)])

InTable(kv, id) == sessionKey(id) \in DOMAIN kv

---------------------------------------------------------------------------
(* Responses and the log of failed store calls *)

EmptyMap == [x \in {} |-> {}]

\* resp_ as constructed: no payload
Resp(op) ==
    [op |-> op, code |-> SUCCEEDED, session |-> {}, sessions |-> <<>>,
     killed_queries |-> EmptyMap, killed_sessions |-> <<>>,
     removed_session_ids |-> <<>>]

\* positions (in request order) of the lookups and removes that failed with a
\* store failure, and whether the put did
NoFailure == [get |-> {}, remove |-> {}, put |-> FALSE]

Failures(f) == Cardinality(f.get) + Cardinality(f.remove) + (IF f.put THEN 1 ELSE 0)

---------------------------------------------------------------------------
(* CreateSessionProcessor::process *)

\* CreateSessionProcess with handleErrorCode(SUCCEEDED) in place of
\* handleErrorCode(ret) at line 40: the result of the put is dropped
CreateSessionProcess_IgnoresPutResult(kv, user, graph_addr, client_ip, now, putFails) ==
    LET ret == userExist(user) IN
    IF ret # SUCCEEDED
    THEN [kv |-> kv, resp |-> [Resp("CreateSession") EXCEPT !.code = ret],
          io |-> NoFailure, read_clock |-> FALSE]
    ELSE LET session == Session(now, now, now, user, graph_addr, client_ip, NoQueries)
             data == <<(<<sessionKey(session.session_id), sessionVal(session)>>)>>
             put == doSyncPut(kv, data, putFails)
         IN [kv |-> put.kv,
             resp |-> [Resp("CreateSession") EXCEPT !.session = {session}],
             io |-> [NoFailure EXCEPT !.put = putFails], read_clock |-> TRUE]

CreateSessionProcess(kv, user, graph_addr, client_ip, now, putFails) ==
    LET ret == userExist(user) IN
    IF ret # SUCCEEDED
    THEN [kv |-> kv, resp |-> [Resp("CreateSession") EXCEPT !.code = ret],
          io |-> NoFailure, read_clock |-> FALSE]
    ELSE LET session == Session(now, now, now, user, graph_addr, client_ip, NoQueries)
             data == <<(<<sessionKey(session.session_id), sessionVal(session)>>)>>
             put == doSyncPut(kv, data, putFails)
         IN [kv |-> put.kv,
             resp |-> [Resp("CreateSession") EXCEPT !.session = {session},
                                                   !.code = put.code],
             io |-> [NoFailure EXCEPT !.put = putFails], read_clock |-> TRUE]

---------------------------------------------------------------------------
(* UpdateSessionsProcessor::process *)

\* lines 70-87: every saved query that the snapshot also holds and that is saved
\* as KILLING is set to KILLING in the snapshot and collected
KilledInSession(session, sessionInMeta) ==
    LET newQueries == session.queries
        hit == {epId \in DOMAIN sessionInMeta.queries :
                   /\ epId \in DOMAIN newQueries
                   /\ sessionInMeta.queries[epId].status = KILLING}
    IN [session |-> [session EXCEPT !.queries =
                        [epId \in DOMAIN newQueries |->
                            IF epId \in hit
                            THEN [newQueries[epId] EXCEPT !.status = KILLING]
                            ELSE newQueries[epId]]],
        killedQueriesInCurrentSession |-> [epId \in hit |-> sessionInMeta.queries[epId]]]

\* line 89: the snapshot is older than the record
IsStale(sessionInMeta, session) == sessionInMeta.update_time > session.update_time

\* lines 54-96: one session of the request.  get.fails: its lookup fails with a
\* store failure; get.invalid: what parseSessionVal(nebula::value(ret)) then yields.
UpdateOne(kv, session, get, acc) ==
    LET sessionId == session.session_id
        ret == doGet(kv, sessionKey(sessionId), get.fails)
    IN
    IF ~ret.ok /\ ret.code = E_KEY_NOT_FOUND
    THEN [acc EXCEPT !.killedSessions = Append(@, sessionId)]
    ELSE
    LET sessionInMeta == IF ret.ok THEN parseSessionVal(ret.val) ELSE get.invalid
        k == KilledInSession(session, sessionInMeta)
        killedQueries ==
            IF DOMAIN k.killedQueriesInCurrentSession # {}
            THEN (sessionId :> k.killedQueriesInCurrentSession) @@ acc.killedQueries
            ELSE acc.killedQueries
    IN
    IF IsStale(sessionInMeta, session)
    THEN [acc EXCEPT !.killedQueries = killedQueries]
    ELSE [acc EXCEPT !.killedQueries = killedQueries,
                     !.data = Append(@, <<sessionKey(sessionId), sessionVal(k.session)>>)]

\* lines 53-97: the loop over the sessions of the request, from the i-th on
RECURSIVE UpdateLoop(_, _, _, _, _)
UpdateLoop(kv, sessions, gets, i, acc) ==
    IF i > Len(sessions) THEN acc
    ELSE UpdateLoop(kv, sessions, gets, i + 1, UpdateOne(kv, sessions[i], gets[i], acc))

\* UpdateSessionsProcess with lines 108-109 moved before the put: the response
\* carries what the loop collected also when the put fails
UpdateSessionsProcess_RespondsOnPutFailure(kv, sessions, gets, putFails) ==
    LET acc == UpdateLoop(kv, sessions, gets, 1,
                          [data |-> <<>>, killedQueries |-> EmptyMap,
                           killedSessions |-> <<>>])
        put == doSyncPut(kv, acc.data, putFails)
        failed == [NoFailure EXCEPT !.get = {i \in DOMAIN gets : gets[i].fails},
                                    !.put = putFails]
    IN [kv |-> put.kv, io |-> failed,
        resp |-> [Resp("UpdateSessions") EXCEPT
                     !.code = put.code,
                     !.killed_queries = acc.killedQueries,
                     !.killed_sessions = acc.killedSessions]]

UpdateSessionsProcess(kv, sessions, gets, putFails) ==
    LET acc == UpdateLoop(kv, sessions, gets, 1,
                          [data |-> <<>>, killedQueries |-> EmptyMap,
                           killedSessions |-> <<>>])
        put == doSyncPut(kv, acc.data, putFails)
        failed == [NoFailure EXCEPT !.get = {i \in DOMAIN gets : gets[i].fails},
                                    !.put = putFails]
    IN IF put.code # SUCCEEDED
       THEN [kv |-> put.kv, io |-> failed,
             resp |-> [Resp("UpdateSessions") EXCEPT !.code = put.code]]
       ELSE [kv |-> put.kv, io |-> failed,
             resp |-> [Resp("UpdateSessions") EXCEPT
                          !.killed_queries = acc.killedQueries,
                          !.killed_sessions = acc.killedSessions]]

---------------------------------------------------------------------------
(* ListSessionsProcessor::process *)

RECURSIVE ParseAll(_)
ParseAll(vals) ==
    IF vals = <<>> THEN <<>>
    ELSE <<parseSessionVal(Head(vals))>> \o ParseAll(Tail(vals))

ListSessionsProcess(kv, scanFails) ==
    LET ret == doPrefix(kv, scanFails) IN
    IF ~ret.ok
    THEN [kv |-> kv, io |-> [NoFailure EXCEPT !.get = {1}],
          resp |-> [Resp("ListSessions") EXCEPT !.code = ret.code]]
    ELSE [kv |-> kv, io |-> NoFailure,
          resp |-> [Resp("ListSessions") EXCEPT !.sessions = ParseAll(ret.vals)]]

---------------------------------------------------------------------------
(* GetSessionProcessor::process *)

GetSessionProcess(kv, sessionId, getFails) ==
    LET ret == doGet(kv, sessionKey(sessionId), getFails) IN
    IF ~ret.ok
    THEN LET errCode == IF ret.code = E_KEY_NOT_FOUND THEN E_SESSION_NOT_FOUND
                        ELSE ret.code
         IN [kv |-> kv, io |-> [NoFailure EXCEPT !.get = IF getFails THEN {1} ELSE {}],
             resp |-> [Resp("GetSession") EXCEPT !.code = errCode]]
    ELSE [kv |-> kv, io |-> NoFailure,
          resp |-> [Resp("GetSession") EXCEPT !.session = {parseSessionVal(ret.val)}]]

---------------------------------------------------------------------------
(* RemoveSessionProcessor::process *)

\* RemoveOne without lines 191-195: the id is recorded whatever the remove returned
RemoveOne_IgnoresRemoveResult(sessionId, getFails, removeFails, i, acc) ==
    LET key == sessionKey(sessionId)
        ret == doGet(acc.kv, key, getFails)
    IN
    IF ~ret.ok
    THEN [acc EXCEPT !.get = @ \cup (IF getFails THEN {i} ELSE {})]
    ELSE
    LET removed == doRemove(acc.kv, key, removeFails) IN
    [acc EXCEPT !.code = removed.code, !.kv = removed.kv,
                !.remove = @ \cup (IF removed.code # SUCCEEDED THEN {i} ELSE {}),
                !.killedSessions = Append(@, sessionId)]

\* lines 169-198: one id of the request.  getFails, removeFails: its lookup, its
\* remove, fails with a store failure.  acc.code is the code the remove callbacks
\* have handed to handleErrorCode so far; acc.get and acc.remove are the positions
\* whose store call failed.
RemoveOne(sessionId, getFails, removeFails, i, acc) ==
    LET key == sessionKey(sessionId)
        ret == doGet(acc.kv, key, getFails)
    IN
    IF ~ret.ok
    THEN [acc EXCEPT !.get = @ \cup (IF getFails THEN {i} ELSE {})]
    ELSE
    LET removed == doRemove(acc.kv, key, removeFails) IN
    IF removed.code # SUCCEEDED
    THEN [acc EXCEPT !.code = removed.code, !.remove = @ \cup {i}]
    ELSE [acc EXCEPT !.code = removed.code, !.kv = removed.kv,
                     !.killedSessions = Append(@, sessionId)]

\* lines 168-199: the loop over the ids of the request, from the i-th on
RECURSIVE RemoveLoop(_, _, _, _, _)
RemoveLoop(sessionIds, getFails, removeFails, i, acc) ==
    IF i > Len(sessionIds) THEN acc
    ELSE RemoveLoop(sessionIds, getFails, removeFails, i + 1,
                    RemoveOne(sessionIds[i], i \in getFails, i \in removeFails, i, acc))

\* line 201: the code of the response
RemoveSessionCode(loopCode) == SUCCEEDED

RemoveSessionProcess(kv, sessionIds, getFails, removeFails) ==
    LET r == RemoveLoop(sessionIds, getFails, removeFails, 1,
                        [kv |-> kv, killedSessions |-> <<>>, code |-> SUCCEEDED,
                         get |-> {}, remove |-> {}])
    IN [kv |-> r.kv, io |-> [NoFailure EXCEPT !.get = r.get, !.remove = r.remove],
        resp |-> [Resp("RemoveSession") EXCEPT
                     !.code = RemoveSessionCode(r.code),
                     !.removed_session_ids = r.killedSessions]]

---------------------------------------------------------------------------
(* KillQueryProcessor::process *)

\* KillInSession without lines 229-233: a requested plan the session does not
\* hold is skipped
KillInSession_SkipsMissing(session, epIds) ==
    [found |-> TRUE,
     session |-> [session EXCEPT !.queries =
                     [epId \in DOMAIN session.queries |->
                         IF epId \in epIds
                         THEN [session.queries[epId] EXCEPT !.status = KILLING]
                         ELSE session.queries[epId]]]]

\* KillInSession with the status set on every query of the session instead of
\* the requested ones (line 234 applied outside the find of line 228)
KillInSession_KillsAll(session, epIds) ==
    IF \E epId \in epIds : epId \notin DOMAIN session.queries
    THEN [found |-> FALSE, session |-> session]
    ELSE [found |-> TRUE,
          session |-> [session EXCEPT !.queries =
                          [epId \in DOMAIN session.queries |->
                              [session.queries[epId] EXCEPT !.status = KILLING]]]]

\* lines 227-235: the requested plans of one session are set to KILLING; a
\* requested plan the session does not hold ends the request
KillInSession(session, epIds) ==
    IF \E epId \in epIds : epId \notin DOMAIN session.queries
    THEN [found |-> FALSE, session |-> session]
    ELSE [found |-> TRUE,
          session |-> [session EXCEPT !.queries =
                          [epId \in DOMAIN session.queries |->
                              IF epId \in epIds
                              THEN [session.queries[epId] EXCEPT !.status = KILLING]
                              ELSE session.queries[epId]]]]

\* lines 211-238, from the i-th entry of killQueries on, in the order the map
\* yields its entries.  The result is the error that ended the loop, or the
\* staged data.
RECURSIVE KillLoop(_, _, _, _, _, _)
KillLoop(kv, killQueries, order, getFails, i, data) ==
    IF i > Len(order) THEN [code |-> SUCCEEDED, data |-> data, get |-> {}]
    ELSE
    LET sessionId == order[i]
        ret == doGet(kv, sessionKey(sessionId), i \in getFails)
    IN
    IF ~ret.ok
    THEN [code |-> IF ret.code = E_KEY_NOT_FOUND THEN E_SESSION_NOT_FOUND ELSE ret.code,
          data |-> data, get |-> IF i \in getFails THEN {i} ELSE {}]
    ELSE
    LET k == KillInSession(parseSessionVal(ret.val), killQueries[sessionId]) IN
    IF ~k.found
    THEN [code |-> E_QUERY_NOT_FOUND, data |-> data, get |-> {}]
    ELSE KillLoop(kv, killQueries, order, getFails, i + 1,
                  Append(data, <<sessionKey(sessionId), sessionVal(k.session)>>))

\* KillQueryProcess with the put moved before the error return: the sessions
\* staged so far are written when a later entry fails
KillQueryProcess_WritesStaged(kv, killQueries, order, getFails, putFails) ==
    LET r == KillLoop(kv, killQueries, order, getFails, 1, <<>>)
        putRet == doSyncPut(kv, r.data, putFails)
    IN IF r.code # SUCCEEDED
       THEN [kv |-> putRet.kv, io |-> [NoFailure EXCEPT !.get = r.get, !.put = putFails],
             resp |-> [Resp("KillQuery") EXCEPT !.code = r.code]]
       ELSE [kv |-> putRet.kv, io |-> [NoFailure EXCEPT !.put = putFails],
             resp |-> [Resp("KillQuery") EXCEPT !.code = putRet.code]]

KillQueryProcess(kv, killQueries, order, getFails, putFails) ==
    LET r == KillLoop(kv, killQueries, order, getFails, 1, <<>>) IN
    IF r.code # SUCCEEDED
    THEN [kv |-> kv, io |-> [NoFailure EXCEPT !.get = r.get],
          resp |-> [Resp("KillQuery") EXCEPT !.code = r.code]]
    ELSE LET putRet == doSyncPut(kv, r.data, putFails)
         IN [kv |-> putRet.kv, io |-> [NoFailure EXCEPT !.put = putFails],
             resp |-> [Resp("KillQuery") EXCEPT !.code = putRet.code]]

---------------------------------------------------------------------------
(* Requests and store-call outcomes the handlers are run on *)

SeqsUpTo(S, n) == UNION {[1..k -> S] : k \in 0..n}

\* the orders in which a map over the keys D may yield its entries
Orders(D) ==
    {o \in [1..Cardinality(D) -> D] : \A i, j \in DOMAIN o : i # j => o[i] # o[j]}

\* a snapshot with the create_time and identity CreateSession gives the session
OwnSnapshot(id, ut, qs) == Session(id, id, ut, "root", "graphd1", "ip1", qs)

\* a snapshot whose create_time and identity are not those of any created session
ForeignSnapshot(id, ut, qs) == Session(id, 0, ut, "nobody", "graphd2", "ip2", qs)

\* the query maps of the snapshots: no query, p1 running, p1 being killed, p1 and
\* p2 running
SnapshotQueries ==
    {NoQueries, [ep \in {"p1"} |-> QueryDesc(RUNNING)],
     [ep \in {"p1"} |-> QueryDesc(KILLING)], [ep \in Plans |-> QueryDesc(RUNNING)]}

\* the snapshots a front-end submits alone
Snapshots ==
    {OwnSnapshot(id, ut, qs) : id \in SessionIds, ut \in Stamps, qs \in SnapshotQueries}
    \cup {ForeignSnapshot(id, ut, NoQueries) : id \in SessionIds, ut \in Stamps}

\* the snapshots of the requests that hold several
BatchSnapshots ==
    {OwnSnapshot(id, ut, [ep \in {"p1"} |-> QueryDesc(RUNNING)]) :
        id \in SessionIds, ut \in Stamps}

Batches ==
    [1..1 -> Snapshots] \cup UNION {[1..k -> BatchSnapshots] : k \in 0..MaxBatch}

\* what parseSessionVal(nebula::value(ret)) may yield after a failed lookup.  The
\* handler reads its update_time and the plans it holds as KILLING, nothing else.
InvalidReads ==
    {Session(0, 0, ut, "", "", "", [ep \in ps |-> QueryDesc(KILLING)]) :
        ut \in Stamps, ps \in SUBSET Plans}

NoRead == Session(0, 0, 0, "", "", "", NoQueries)

\* the sets of at most MaxFaults positions among 1..n
FaultSets(n) == {F \in SUBSET (1..n) : Cardinality(F) <= MaxFaults}

---------------------------------------------------------------------------
(* The session lock and the request threads.  Every handler constructs a    *)
(* folly::SharedMutex holder on LockUtils::sessionLock() as its first        *)
(* statement; the holder is destroyed when process() returns.                *)

Procs == 1..MaxThreads

Ops == {"CreateSession", "UpdateSessions", "ListSessions", "GetSession",
        "RemoveSession", "KillQuery"}

\* HolderOf with UpdateSessions taking a ReadHolder
HolderOf_UpdateSharesLock(op) ==
    IF op \in {"ListSessions", "GetSession", "UpdateSessions"}
    THEN "ReadHolder" ELSE "WriteHolder"

\* lines 12, 45, 115, 141, 163, 207: the holder each handler constructs
HolderOf(op) ==
    IF op \in {"ListSessions", "GetSession"} THEN "ReadHolder" ELSE "WriteHolder"

\* the store calls of a handler on a request of n sessions, in program order
StoreCalls(op, n) ==
    CASE op = "CreateSession" -> <<"userExist", "doSyncPut">>
      [] op = "UpdateSessions" -> [i \in 1..(n + 1) |-> IF i <= n THEN "doGet" ELSE "doSyncPut"]
      [] op = "ListSessions" -> <<"doPrefix">>
      [] op = "GetSession" -> <<"doGet">>
      [] op = "RemoveSession" -> [i \in 1..(2 * n) |-> IF i % 2 = 1 THEN "doGet" ELSE "asyncRemove"]
      [] op = "KillQuery" -> [i \in 1..(n + 1) |-> IF i <= n THEN "doGet" ELSE "doSyncPut"]

\* the store calls left after the first of todo has returned.  failed: it returned
\* an error (for a doGet of KillQuery also: a requested plan is missing).
AfterCall(op, todo, failed) ==
    CASE op = "CreateSession" -> IF failed THEN <<>> ELSE Tail(todo)
      [] op = "UpdateSessions" -> Tail(todo)
      [] op = "RemoveSession" ->
            IF failed /\ Head(todo) = "doGet" THEN Tail(Tail(todo)) ELSE Tail(todo)
      [] op = "KillQuery" -> IF failed THEN <<>> ELSE Tail(todo)
      [] OTHER -> <<>>

\* whether process() hands an error code to handleErrorCode because of that call
ErrorReturn(op, call, failed) ==
    failed /\ (op # "RemoveSession") /\ (op # "UpdateSessions" \/ call = "doSyncPut")

\* folly::SharedMutex (write priority): held by one exclusive holder or by any
\* number of shared ones.  An exclusive acquisition claims the lock as soon as no
\* other exclusive one has it, which keeps new shared holders out, and completes
\* when the shared holders have left.
Unlocked == [exclusive |-> {}, shared |-> {}]

CanLock(l, holder) == l.exclusive = {}

Locked(l, holder, p) ==
    IF holder = "WriteHolder" THEN [l EXCEPT !.exclusive = @ \cup {p}]
    ELSE [l EXCEPT !.shared = @ \cup {p}]

\* HolderReleased with an unlock written before the last return only: the early
\* error returns keep the lock
HolderReleased_OnSuccessOnly(l, p, code) ==
    IF code = "error" THEN l
    ELSE [exclusive |-> l.exclusive \ {p}, shared |-> l.shared \ {p}]

\* the holder goes out of scope at a return of process(), whatever the code
HolderReleased(l, p, code) ==
    [exclusive |-> l.exclusive \ {p}, shared |-> l.shared \ {p}]

NoThread == [op |-> "None", pc |-> "idle", todo |-> <<>>, code |-> "ok"]

\* a request arrives on thread p: process() is called and reaches the holder
Start(p) ==
    /\ threads[p].pc = "idle"
    /\ \E op \in Ops, n \in 1..MaxBatch :
        /\ n = 1 \/ op \in {"UpdateSessions", "RemoveSession", "KillQuery"}
        /\ threads' = [threads EXCEPT ![p] =
                          [op |-> op, pc |-> "waiting", todo |-> StoreCalls(op, n),
                           code |-> "ok"]]
    /\ UNCHANGED <<store, clock, req, io, resp, created, killed, sessionLock>>

\* the constructor of the holder gets the lock; a WriteHolder that finds shared
\* holders waits for them to leave
Acquire(p) ==
    /\ threads[p].pc = "waiting"
    /\ CanLock(sessionLock, HolderOf(threads[p].op))
    /\ sessionLock' = Locked(sessionLock, HolderOf(threads[p].op), p)
    /\ threads' = [threads EXCEPT ![p].pc =
                      IF HolderOf(threads[p].op) = "WriteHolder" /\ sessionLock.shared # {}
                      THEN "draining" ELSE "body"]
    /\ UNCHANGED <<store, clock, req, io, resp, created, killed>>

\* the shared holders have left: the constructor of the WriteHolder returns
Drained(p) ==
    /\ threads[p].pc = "draining"
    /\ sessionLock.shared = {}
    /\ threads' = [threads EXCEPT ![p].pc = "body"]
    /\ UNCHANGED <<store, clock, req, io, resp, created, killed, sessionLock>>

\* the next store call of the handler is made and answered
StoreCall(p) ==
    /\ threads[p].pc = "body"
    /\ threads[p].todo # <<>>
    /\ \E failed \in BOOLEAN :
        threads' = [threads EXCEPT
            ![p].todo = AfterCall(threads[p].op, threads[p].todo, failed),
            ![p].code = IF ErrorReturn(threads[p].op, Head(threads[p].todo), failed)
                        THEN "error" ELSE @]
    /\ UNCHANGED <<store, clock, req, io, resp, created, killed, sessionLock>>

\* onFinished(); process() returns
Return(p) ==
    /\ threads[p].pc = "body"
    /\ threads[p].todo = <<>>
    /\ sessionLock' = HolderReleased(sessionLock, p, threads[p].code)
    /\ threads' = [threads EXCEPT ![p].pc = "idle"]
    /\ UNCHANGED <<store, clock, req, io, resp, created, killed>>

---------------------------------------------------------------------------
(* The state machine.  A handler runs from the acquisition of the session   *)
(* lock to onFinished() in one step; Deliver is the RPC layer handing the   *)
(* response to the caller, after which the next request is served.          *)

NoRequest == [op |-> "None", arg |-> <<>>]

Init ==
    /\ store = EmptyMap
    /\ clock = 1
    /\ req = NoRequest
    /\ io = NoFailure
    /\ resp = Resp("None")
    /\ created = {}
    /\ killed = {}
    /\ threads = [p \in Procs |-> NoThread]
    /\ sessionLock = Unlocked

Idle == resp.op = "None"

\* the marks of `marks` that are still KILLING in the persisted records of kv
StillMarked(kv, marks) ==
    {m \in marks : /\ InTable(kv, m[1])
                   /\ m[2] \in DOMAIN Persisted(kv, m[1]).queries
                   /\ Persisted(kv, m[1]).queries[m[2]].status = KILLING}

\* a handler has run: r is its result
Finish(request, r, newCreated, newMarks) ==
    /\ Failures(r.io) <= MaxFaults
    /\ store' = r.kv
    /\ req' = request
    /\ io' = r.io
    /\ resp' = r.resp
    /\ created' = newCreated
    /\ killed' = StillMarked(r.kv, killed \cup newMarks)
    /\ UNCHANGED <<threads, sessionLock>>

CreateSession ==
    /\ Idle
    /\ \E ident \in Identities, now \in clock..MaxTime, putFails \in BOOLEAN :
        LET r == CreateSessionProcess(store, ident[1], ident[2], ident[3], now, putFails)
        IN /\ r.read_clock \/ (now = clock /\ ~putFails)
           /\ clock' = now
           /\ Finish([op |-> "CreateSession", arg |-> ident], r,
                     IF r.read_clock /\ r.resp.code = SUCCEEDED
                     THEN created \cup {now} ELSE created, {})

UpdateSessions ==
    /\ Idle
    /\ \E sessions \in Batches :
       \E F \in FaultSets(Len(sessions) + 1) :
       \E invalid \in [F \ {Len(sessions) + 1} -> InvalidReads] :
        LET gets == [i \in 1..Len(sessions) |->
                        [fails |-> i \in F,
                         invalid |-> IF i \in F THEN invalid[i] ELSE NoRead]]
            r == UpdateSessionsProcess(store, sessions, gets, (Len(sessions) + 1) \in F)
        IN /\ clock' = clock
           /\ Finish([op |-> "UpdateSessions", arg |-> sessions], r, created, {})

ListSessions ==
    /\ Idle
    /\ \E scanFails \in BOOLEAN :
        /\ clock' = clock
        /\ Finish([op |-> "ListSessions", arg |-> <<>>],
                  ListSessionsProcess(store, scanFails), created, {})

GetSession ==
    /\ Idle
    /\ \E sessionId \in SessionIds, getFails \in BOOLEAN :
        /\ clock' = clock
        /\ Finish([op |-> "GetSession", arg |-> sessionId],
                  GetSessionProcess(store, sessionId, getFails), created, {})

RemoveSession ==
    /\ Idle
    /\ \E sessionIds \in SeqsUpTo(SessionIds, MaxBatch) :
       \E getFails \in FaultSets(Len(sessionIds)), removeFails \in FaultSets(Len(sessionIds)) :
        LET r == RemoveSessionProcess(store, sessionIds, getFails, removeFails)
        IN /\ r.io.get = getFails /\ r.io.remove = removeFails
           /\ clock' = clock
           /\ Finish([op |-> "RemoveSession", arg |-> sessionIds], r,
                     created \ {r.resp.removed_session_ids[i] :
                                   i \in DOMAIN r.resp.removed_session_ids}, {})

KillQuery ==
    /\ Idle
    /\ \E D \in SUBSET SessionIds :
       \E killQueries \in [D -> SUBSET Plans], order \in Orders(D) :
       \E getFails \in FaultSets(Len(order)), putFails \in BOOLEAN :
        LET r == KillQueryProcess(store, killQueries, order, getFails, putFails)
        IN /\ r.io.get = getFails /\ r.io.put = putFails
           /\ clock' = clock
           /\ Finish([op |-> "KillQuery",
                      arg |-> [kill_queries |-> killQueries, order |-> order]], r,
                     created,
                     IF r.resp.code = SUCCEEDED
                     THEN {m \in D \X Plans : m[2] \in killQueries[m[1]]}
                     ELSE {})

Deliver ==
    /\ ~Idle
    /\ req' = NoRequest
    /\ io' = NoFailure
    /\ resp' = Resp("None")
    /\ UNCHANGED <<store, clock, created, killed, threads, sessionLock>>

Next ==
    \/ CreateSession
    \/ UpdateSessions
    \/ ListSessions
    \/ GetSession
    \/ RemoveSession
    \/ KillQuery
    \/ Deliver

Spec == Init /\ [][Next]_vars

LockNext ==
    \E p \in Procs : Start(p) \/ Acquire(p) \/ Drained(p) \/ StoreCall(p) \/ Return(p)

\* the handlers as threads that contend for the session lock
LockSpec == Init /\ [][LockNext]_vars

\* every thread gets to run, the store answers every call, and a thread that
\* finds the lock free again and again gets it
FairLockSpec ==
    /\ LockSpec
    /\ \A p \in Procs : /\ WF_vars(StoreCall(p))
                        /\ WF_vars(Return(p))
                        /\ WF_vars(Drained(p))
                        /\ SF_vars(Acquire(p))

---------------------------------------------------------------------------
(* Properties.  In a step taken by a handler the unprimed variables are the *)
(* table the handler found and the primed ones its request, its failed      *)
(* store calls, its response and the table it left.                         *)

Range(seq) == {seq[i] : i \in DOMAIN seq}

\* the persisted record of session id in kv holds plan ep
Holds(kv, id, ep) == InTable(kv, id) /\ ep \in DOMAIN Persisted(kv, id).queries

\* ... and holds it with status st
HoldsAs(kv, id, ep, st) ==
    Holds(kv, id, ep) /\ Persisted(kv, id).queries[ep].status = st

\* the snapshots of session id in a request of UpdateSessions
SnapshotsOf(sessions, id) == {i \in DOMAIN sessions : sessions[i].session_id = id}

\* C1: once a successful KillQuery has marked plan ep of a created session as
\* KILLING and the record has held it so since, every UpdateSessions that succeeds
\* and submits a snapshot of that session with ep RUNNING returns ep in
\* killed_queries of that session.
C1_KillSignalDelivered ==
    [][(resp'.op = "UpdateSessions" /\ resp'.code = SUCCEEDED) =>
        \A i \in DOMAIN req'.arg :
            LET s == req'.arg[i] IN
            \A ep \in DOMAIN s.queries :
                (/\ s.session_id \in created
                 /\ <<s.session_id, ep>> \in killed
                 /\ s.queries[ep].status = RUNNING)
                => /\ s.session_id \in DOMAIN resp'.killed_queries
                   /\ ep \in DOMAIN resp'.killed_queries[s.session_id]]_vars

\* C2: no step changes a persisted status from KILLING to RUNNING: a plan of a
\* created session that KillQuery marked, held as KILLING before a step and still
\* held after it, is still KILLING.
C2_KillingNeverReverted ==
    [][\A id \in created, ep \in Plans :
        (<<id, ep>> \in killed /\ HoldsAs(store, id, ep, KILLING) /\ Holds(store', id, ep))
        => HoldsAs(store', id, ep, KILLING)]_vars

\* C3: no step of UpdateSessions or KillQuery lowers the persisted update_time of
\* a created session.
C3_UpdateTimeNeverDecreases ==
    [][resp'.op \in {"UpdateSessions", "KillQuery"} =>
        \A id \in created :
            (InTable(store, id) /\ InTable(store', id))
            => Persisted(store', id).update_time >= Persisted(store, id).update_time]_vars

\* C4: an UpdateSessions that submits one snapshot of a created session, with an
\* update_time below the persisted one, leaves the record of that session as it was.
C4_StaleSnapshotDropped ==
    [][resp'.op = "UpdateSessions" =>
        \A i \in DOMAIN req'.arg :
            LET s == req'.arg[i] IN
            (/\ SnapshotsOf(req'.arg, s.session_id) = {i}
             /\ s.session_id \in created
             /\ InTable(store, s.session_id)
             /\ s.update_time < Persisted(store, s.session_id).update_time)
            => /\ InTable(store', s.session_id)
               /\ Persisted(store', s.session_id) = Persisted(store, s.session_id)]_vars

\* C5: an UpdateSessions that submits a snapshot of a session id that is not in the
\* table leaves the id out of the table and, when it succeeds, returns the id in
\* killed_sessions.
C5_RemovedSessionNotResurrected ==
    [][resp'.op = "UpdateSessions" =>
        \A i \in DOMAIN req'.arg :
            LET id == req'.arg[i].session_id IN
            ~InTable(store, id)
            => /\ ~InTable(store', id)
               /\ resp'.code = SUCCEEDED => id \in Range(resp'.killed_sessions)]_vars

\* the entry of session id in a KillQuery request can be applied to kv: the
\* session is in the table and holds every requested plan
Killable(kv, killQueries, id) ==
    /\ InTable(kv, id)
    /\ killQueries[id] \subseteq DOMAIN Persisted(kv, id).queries

\* C6 (as stated): a KillQuery whose store calls all succeed and which names,
\* for a session that is in the table, a plan the session does not hold returns
\* E_QUERY_NOT_FOUND and leaves the queries of that session as they were.
C6_QueryNotFound ==
    [][(resp'.op = "KillQuery" /\ io' = NoFailure) =>
        \A id \in DOMAIN req'.arg.kill_queries :
            (InTable(store, id) /\ ~Killable(store, req'.arg.kill_queries, id))
            => /\ resp'.code = E_QUERY_NOT_FOUND
               /\ InTable(store', id)
               /\ Persisted(store', id).queries = Persisted(store, id).queries]_vars

\* C6 (amended): a KillQuery that names, for a session that is in the table, a
\* plan the session does not hold does not succeed and leaves every record as it
\* was; it returns E_QUERY_NOT_FOUND when no lookup failed and every entry the
\* map yields before that session can be applied.
C6_MissingPlanFailsCall ==
    [][resp'.op = "KillQuery" =>
        LET killQueries == req'.arg.kill_queries
            order == req'.arg.order
        IN \A j \in DOMAIN order :
            (InTable(store, order[j]) /\ ~Killable(store, killQueries, order[j]))
            => /\ resp'.code # SUCCEEDED
               /\ store' = store
               /\ (/\ io'.get = {}
                   /\ \A k \in 1..(j - 1) : Killable(store, killQueries, order[k]))
                  => resp'.code = E_QUERY_NOT_FOUND]_vars

\* a KillQuery has returned E_QUERY_NOT_FOUND for a session of which it names a
\* plan that is held, and still RUNNING, together with one that is not held
C6_Witness ==
    /\ resp.op = "KillQuery"
    /\ resp.code = E_QUERY_NOT_FOUND
    /\ \E id \in DOMAIN req.arg.kill_queries :
        /\ InTable(store, id)
        /\ \E held, missing \in req.arg.kill_queries[id] :
            /\ HoldsAs(store, id, held, RUNNING)
            /\ ~Holds(store, id, missing)

\* C7 (as stated): a KillQuery whose store calls all succeed returns
\* E_SESSION_NOT_FOUND if any session id of the request is not in the table, and
\* changes no record when it returns E_SESSION_NOT_FOUND or E_QUERY_NOT_FOUND.
C7_FailFastAllOrNothing ==
    [][(resp'.op = "KillQuery" /\ io' = NoFailure) =>
        /\ (\E id \in DOMAIN req'.arg.kill_queries : ~InTable(store, id))
           => resp'.code = E_SESSION_NOT_FOUND
        /\ resp'.code \in {E_SESSION_NOT_FOUND, E_QUERY_NOT_FOUND}
           => store' = store]_vars

\* C7 (amended): a KillQuery that names a session id that is not in the table does
\* not succeed and changes no record; it returns E_SESSION_NOT_FOUND when no lookup
\* failed and every entry the map yields before that id can be applied; and a
\* KillQuery that returns E_SESSION_NOT_FOUND or E_QUERY_NOT_FOUND changes no record.
C7_AbsentSessionFailsCall ==
    [][resp'.op = "KillQuery" =>
        LET killQueries == req'.arg.kill_queries
            order == req'.arg.order
        IN /\ \A j \in DOMAIN order :
                ~InTable(store, order[j])
                => /\ resp'.code # SUCCEEDED
                   /\ store' = store
                   /\ (/\ io'.get = {}
                       /\ \A k \in 1..(j - 1) : Killable(store, killQueries, order[k]))
                      => resp'.code = E_SESSION_NOT_FOUND
           /\ resp'.code \in {E_SESSION_NOT_FOUND, E_QUERY_NOT_FOUND}
              => store' = store]_vars

\* a KillQuery has returned E_SESSION_NOT_FOUND for the second entry after its
\* first entry, whose plans are all held, was staged; the plans are still RUNNING
C7_Witness ==
    /\ resp.op = "KillQuery"
    /\ resp.code = E_SESSION_NOT_FOUND
    /\ Len(req.arg.order) = 2
    /\ ~InTable(store, req.arg.order[2])
    /\ req.arg.kill_queries[req.arg.order[1]] # {}
    /\ \A ep \in req.arg.kill_queries[req.arg.order[1]] :
        HoldsAs(store, req.arg.order[1], ep, RUNNING)

\* C8 (as stated): RemoveSession returns as removed_session_ids the ids of the
\* request that were in the table before the call, those ids are not in the table
\* after it, and the code is SUCCEEDED.
C8_RemovesEveryExistingId ==
    [][resp'.op = "RemoveSession" =>
        /\ Range(resp'.removed_session_ids) = {id \in Range(req'.arg) : InTable(store, id)}
        /\ \A id \in Range(resp'.removed_session_ids) : ~InTable(store', id)
        /\ resp'.code = SUCCEEDED]_vars

\* C8 (amended): RemoveSession returns as removed_session_ids, each once, the ids
\* the request names at a position where the id was in the table before the call
\* and neither the lookup nor the remove failed; those ids are not in the table
\* after the call, every other record is as it was, and the code is SUCCEEDED.
C8_RemovesWhatTheStoreRemoved ==
    [][resp'.op = "RemoveSession" =>
        LET removed == Range(resp'.removed_session_ids) IN
        /\ removed = {req'.arg[j] : j \in {k \in DOMAIN req'.arg :
                                              /\ InTable(store, req'.arg[k])
                                              /\ k \notin io'.get
                                              /\ k \notin io'.remove}}
        /\ Len(resp'.removed_session_ids) = Cardinality(removed)
        /\ \A id \in SessionIds :
            IF id \in removed THEN ~InTable(store', id)
            ELSE /\ InTable(store', id) <=> InTable(store, id)
                 /\ InTable(store, id) => Persisted(store', id) = Persisted(store, id)
        /\ resp'.code = SUCCEEDED]_vars

\* a RemoveSession of two ids, with no store failure, has removed one of them:
\* the other was not in the table
C8_Witness ==
    /\ resp.op = "RemoveSession"
    /\ io = NoFailure
    /\ Len(req.arg) = 2
    /\ req.arg[1] # req.arg[2]
    /\ Len(resp.removed_session_ids) = 1
    /\ resp.code = SUCCEEDED

\* C9: a GetSession whose lookup the store answers returns E_SESSION_NOT_FOUND for
\* an id that no CreateSession made or that RemoveSession removed since, never
\* E_KEY_NOT_FOUND, and SUCCEEDED with the persisted record for an id in the table.
C9_GetSessionOfLiveSessions ==
    (resp.op = "GetSession" /\ io.get = {}) =>
        /\ req.arg \notin created => resp.code = E_SESSION_NOT_FOUND
        /\ InTable(store, req.arg)
           => (resp.code = SUCCEEDED /\ resp.session = {Persisted(store, req.arg)})
        /\ resp.code # E_KEY_NOT_FOUND

\* C10: a ListSessions that succeeds returns one record for every session that
\* was created and not removed since, and no other record.
C10_ListReturnsLiveSessions ==
    (resp.op = "ListSessions" /\ resp.code = SUCCEEDED) =>
        /\ {resp.sessions[i].session_id : i \in DOMAIN resp.sessions} = created
        /\ Len(resp.sessions) = Cardinality(created)

C13_FailedWriteNotSuccess ==
    [][(resp'.op \in {"CreateSession", "UpdateSessions", "KillQuery"} /\ io'.put)
        => (resp'.code = E_STORE_FAILURE /\ resp'.code # SUCCEEDED)]_vars

\* the put of a CreateSession of a registered user has failed, and the response
\* carries the store's error code
C13_Witness ==
    /\ resp.op = "CreateSession"
    /\ req.arg[1] \in Registered
    /\ io.put
    /\ resp.code = E_STORE_FAILURE

\* C14: an UpdateSessions that succeeds and whose lookups the store all answers
\* returns a plan ep that KillQuery marked in killed_queries of a created session
\* id only if the record of id held ep as KILLING and a snapshot of id in the
\* request holds ep with a status that is not KILLING.
C14_KilledQueriesOnlyUnconfirmed ==
    [][(resp'.op = "UpdateSessions" /\ resp'.code = SUCCEEDED /\ io'.get = {}) =>
        \A id \in DOMAIN resp'.killed_queries :
            \A ep \in DOMAIN resp'.killed_queries[id] :
                (id \in created /\ <<id, ep>> \in killed)
                => /\ InTable(store, id)
                   /\ HoldsAs(store, id, ep, KILLING)
                   /\ \E i \in SnapshotsOf(req'.arg, id) :
                       /\ ep \in DOMAIN req'.arg[i].queries
                       /\ req'.arg[i].queries[ep].status # KILLING]_vars

C16_LookupErrorPropagates ==
    [][(resp'.op = "UpdateSessions" /\ io'.get # {}) =>
        /\ resp'.code = E_STORE_FAILURE
        /\ store' = store]_vars

\* user_name, graph_addr, client_ip and create_time of a record
IdentityOf(session) ==
    <<session.user_name, session.graph_addr, session.client_ip, session.create_time>>

\* C17: an UpdateSessions or KillQuery whose store calls are all answered leaves
\* user_name, graph_addr, client_ip and create_time of every created session that
\* stays in the table as they were.
C17_IdentityImmutable ==
    [][(resp'.op \in {"UpdateSessions", "KillQuery"} /\ io' = NoFailure) =>
        \A id \in created :
            (InTable(store, id) /\ InTable(store', id))
            => IdentityOf(Persisted(store', id)) = IdentityOf(Persisted(store, id))]_vars

\* the snapshot with KILLING set on every plan it holds that the record holds as
\* KILLING
Reasserted(snapshot, record) ==
    [snapshot EXCEPT !.queries =
        [ep \in DOMAIN snapshot.queries |->
            IF ep \in DOMAIN record.queries /\ record.queries[ep].status = KILLING
            THEN [snapshot.queries[ep] EXCEPT !.status = KILLING]
            ELSE snapshot.queries[ep]]]

\* C19: after an UpdateSessions that succeeds, the record of a session that was in
\* the table and of which the request holds one snapshot, with an update_time not
\* below the persisted one, is that snapshot with KILLING set on the plans the
\* record held as KILLING; the records of the sessions the request does not name
\* are as they were.
C19_AcceptedHeartbeat ==
    [][(resp'.op = "UpdateSessions" /\ resp'.code = SUCCEEDED) =>
        /\ \A i \in DOMAIN req'.arg :
            LET s == req'.arg[i] IN
            (/\ SnapshotsOf(req'.arg, s.session_id) = {i}
             /\ InTable(store, s.session_id)
             /\ s.update_time >= Persisted(store, s.session_id).update_time)
            => /\ InTable(store', s.session_id)
               /\ Persisted(store', s.session_id)
                      = Reasserted(s, Persisted(store, s.session_id))
        /\ \A id \in SessionIds :
            SnapshotsOf(req'.arg, id) = {}
            => /\ InTable(store', id) <=> InTable(store, id)
               /\ InTable(store, id) => Persisted(store', id) = Persisted(store, id)]_vars

\* the record of a session with the requested plans set to KILLING
Marked(record, epIds) ==
    [record EXCEPT !.queries =
        [ep \in DOMAIN record.queries |->
            IF ep \in epIds THEN [record.queries[ep] EXCEPT !.status = KILLING]
            ELSE record.queries[ep]]]

\* C20: after a KillQuery that succeeds every named session is in the table with
\* its requested plans KILLING and everything else of its record as it was, every
\* session that is not named is as it was, and the same KillQuery run again
\* succeeds and leaves the table as it is.
C20_KillQueryFrame ==
    [][(resp'.op = "KillQuery" /\ resp'.code = SUCCEEDED) =>
        LET killQueries == req'.arg.kill_queries IN
        /\ \A id \in SessionIds :
            IF id \in DOMAIN killQueries
            THEN /\ InTable(store, id) /\ InTable(store', id)
                 /\ \A ep \in killQueries[id] : HoldsAs(store', id, ep, KILLING)
                 /\ Persisted(store', id) = Marked(Persisted(store, id), killQueries[id])
            ELSE /\ InTable(store', id) <=> InTable(store, id)
                 /\ InTable(store, id) => Persisted(store', id) = Persisted(store, id)
        /\ LET again == KillQueryProcess(store', killQueries, req'.arg.order, {}, FALSE)
           IN again.resp.code = SUCCEEDED /\ again.kv = store']_vars

\* a KillQuery has succeeded that named one of two plans of a session; the plan
\* it did not name is still RUNNING, and another session is in the table
C20_Witness ==
    /\ resp.op = "KillQuery"
    /\ resp.code = SUCCEEDED
    /\ \E id \in DOMAIN req.arg.kill_queries :
        /\ \E ep \in req.arg.kill_queries[id] : HoldsAs(store, id, ep, KILLING)
        /\ \E ep \in Plans \ req.arg.kill_queries[id] : HoldsAs(store, id, ep, RUNNING)
    /\ \E id \in SessionIds \ DOMAIN req.arg.kill_queries : InTable(store, id)

\* thread p is between the construction of its holder and its return; every
\* store call of its handler is made there
InBody(p) == threads[p].pc = "body"

MutatingOps == {"CreateSession", "UpdateSessions", "RemoveSession", "KillQuery"}

\* C12: while a thread runs CreateSession, UpdateSessions, RemoveSession or
\* KillQuery between the acquisition of the lock (before its first store call) and
\* its return (after its last), no other thread is inside a handler: two threads
\* are inside handlers at once only if both run ListSessions or GetSession.
C12_WriterExclusion ==
    \A p, q \in Procs :
        (p # q /\ InBody(p) /\ InBody(q))
        => (threads[p].op \notin MutatingOps /\ threads[q].op \notin MutatingOps)

\* a ListSessions and a GetSession hold the lock at the same time, each before
\* its store read, while an UpdateSessions waits for the lock
C12_Witness ==
    \E p, q, w \in Procs :
        /\ InBody(p) /\ threads[p].op = "ListSessions" /\ threads[p].todo # <<>>
        /\ InBody(q) /\ threads[q].op = "GetSession" /\ threads[q].todo # <<>>
        /\ threads[w].pc = "waiting" /\ threads[w].op = "UpdateSessions"

====
